---- MODULE Spec2Model ----
(***************************************************************************)
(* PhoneGenius ULTRA: the Twilio Media Streams WebSocket handler            *)
(* (media_stream), the streaming token source (stream_gemini_response)      *)
(* and the process-wide registry ACTIVE_CALLS of src/phonegenius_ultra.py.  *)
(*                                                                         *)
(* Text is modelled as a sequence of Unicode code points, bytes as a       *)
(* sequence of 0..255, base64 text as a sequence of symbol codes: 0..63    *)
(* the alphabet, 64 the pad '=', 65 any character outside the alphabet.    *)
(*                                                                         *)
(* stream_gemini_response ends with `return full_response` inside an async *)
(* generator (line 179), which CPython rejects at compile time. The model  *)
(* reads that line as the generator finishing (a bare return), the only    *)
(* reading under which the handler runs at all.                            *)
(***************************************************************************)
EXTENDS Integers, Sequences, FiniteSets, TLC

\* ------------------------------------------------------------------ bounds
\* frames the peer sends on one channel
MaxInbound == 2
\* chunks the token source produces over the life of one channel
MaxTokens == 3
\* call-trigger requests served, possibly at the same time
NumRequests == 3
\* with two calls at once: frames the peers send and chunks the source
\* produces, over both channels together
MaxInboundTwo == 2
MaxTokensTwo == 1

\* ------------------------------------------------------------ text codecs
B64Pad == 64
B64Junk == 65

\* str.encode(): UTF-8 of one code point (1, 2 or 3 bytes)
Utf8Char(cp) ==
  IF cp < 128 THEN << cp >>
  ELSE IF cp < 2048 THEN << 192 + (cp \div 64), 128 + (cp % 64) >>
  ELSE << 224 + (cp \div 4096), 128 + ((cp \div 64) % 64), 128 + (cp % 64) >>

\* str.encode(): the bytes of the code points, in order (by halves, so that
\* the evaluation depth is logarithmic in the length)
RECURSIVE Utf8Encode(_)
Utf8Encode(s) ==
  IF s = << >> THEN << >>
  ELSE IF Len(s) = 1 THEN Utf8Char(s[1])
  ELSE LET h == Len(s) \div 2
       IN  Utf8Encode(SubSeq(s, 1, h)) \o Utf8Encode(SubSeq(s, h + 1, Len(s)))

\* bytes.decode(): one code point per leading byte, built from it and the
\* continuation bytes that follow (-1 marks what does not decode)
Utf8At(b, i) ==
  IF b[i] < 128 THEN b[i]
  ELSE IF b[i] >= 192 /\ b[i] < 224 /\ i + 1 <= Len(b)
    THEN (b[i] - 192) * 64 + (b[i + 1] - 128)
  ELSE IF b[i] >= 224 /\ b[i] < 240 /\ i + 2 <= Len(b)
    THEN (b[i] - 224) * 4096 + (b[i + 1] - 128) * 64 + (b[i + 2] - 128)
  ELSE -1

Utf8Decode(b) ==
  LET lead == SelectSeq([i \in 1..Len(b) |-> i],
                        LAMBDA i : b[i] < 128 \/ b[i] >= 192)
  IN  [k \in 1..Len(lead) |-> Utf8At(b, lead[k])]

\* base64.b64encode(): three bytes give four symbols, the tail is padded
B64Symbol(b, i) ==
  LET g == 3 * ((i - 1) \div 4)
      b1 == b[g + 1]
      b2 == IF g + 2 <= Len(b) THEN b[g + 2] ELSE 0
      b3 == IF g + 3 <= Len(b) THEN b[g + 3] ELSE 0
      k == (i - 1) % 4
  IN  IF k = 0 THEN b1 \div 4
      ELSE IF k = 1 THEN (b1 % 4) * 16 + (b2 \div 16)
      ELSE IF k = 2 THEN
        IF g + 2 > Len(b) THEN B64Pad ELSE (b2 % 16) * 4 + (b3 \div 64)
      ELSE IF g + 3 > Len(b) THEN B64Pad ELSE b3 % 64

B64Encode(b) == [i \in 1..(4 * ((Len(b) + 2) \div 3)) |-> B64Symbol(b, i)]

\* base64.b64decode(s) with validate=False, as binascii.a2b_base64 scans it:
\* characters outside the alphabet are skipped, a pad that completes a quad
\* ends the scan, and a quad left open at the end is an error (binascii.Error).
\* st = [quad, pads, left, bytes, done]
B64Step(st, c) ==
  IF st.done THEN st
  ELSE IF c = B64Pad THEN
    IF st.quad >= 2 /\ st.quad + st.pads + 1 >= 4
      THEN [st EXCEPT !.done = TRUE]
      ELSE IF st.quad >= 2 THEN [st EXCEPT !.pads = st.pads + 1] ELSE st
  ELSE IF c >= 64 THEN st
  ELSE IF st.quad = 0 THEN [st EXCEPT !.pads = 0, !.quad = 1, !.left = c]
  ELSE IF st.quad = 1 THEN
    [st EXCEPT !.pads = 0, !.quad = 2, !.left = c % 16,
               !.bytes = Append(st.bytes, st.left * 4 + (c \div 16))]
  ELSE IF st.quad = 2 THEN
    [st EXCEPT !.pads = 0, !.quad = 3, !.left = c % 4,
               !.bytes = Append(st.bytes, st.left * 16 + (c \div 4))]
  ELSE
    [st EXCEPT !.pads = 0, !.quad = 0, !.left = 0,
               !.bytes = Append(st.bytes, st.left * 64 + c)]

\* the scan of s from state st (by halves, left to right; once a pad has
\* ended the scan the rest of s is not looked at)
RECURSIVE B64Scan(_, _)
B64Scan(st, s) ==
  IF s = << >> THEN st
  ELSE IF Len(s) = 1 THEN B64Step(st, s[1])
  ELSE LET h == Len(s) \div 2
           mid == B64Scan(st, SubSeq(s, 1, h))
       IN  IF mid.done THEN mid ELSE B64Scan(mid, SubSeq(s, h + 1, Len(s)))

B64Decode(s) ==
  LET st == B64Scan([quad |-> 0, pads |-> 0, left |-> 0, bytes |-> << >>,
                     done |-> FALSE], s)
  IN  [ok |-> st.done \/ st.quad = 0, bytes |-> st.bytes]

\* ---------------------------------------------------------- sales scripts
ELITE_OPENINGS ==
  [
    restaurant |->
       << 72, 105, 32, 123, 110, 97, 109, 101, 125, 44, 32, 113, 117, 105, 99, 107, 32, 113, 117, 101,
          115, 116, 105, 111, 110, 32, 45, 32, 100, 111, 32, 121, 111, 117, 32, 104, 97, 118, 101, 32,
          51, 48, 32, 115, 101, 99, 111, 110, 100, 115, 63, 32, 73, 32, 110, 111, 116, 105, 99, 101,
          100, 32, 114, 101, 115, 116, 97, 117, 114, 97, 110, 116, 115, 32, 105, 110, 32, 121, 111, 117,
          114, 32, 97, 114, 101, 97, 32, 109, 97, 107, 105, 110, 103, 32, 97, 110, 32, 101, 120, 116,
          114, 97, 32, 36, 53, 75, 45, 49, 53, 75, 32, 109, 111, 110, 116, 104, 108, 121, 32, 106,
          117, 115, 116, 32, 98, 121, 32, 97, 110, 115, 119, 101, 114, 105, 110, 103, 32, 99, 97, 108,
          108, 115, 32, 100, 117, 114, 105, 110, 103, 32, 114, 117, 115, 104, 32, 104, 111, 117, 114, 115,
          46, 32, 65, 114, 101, 32, 121, 111, 117, 32, 108, 101, 97, 118, 105, 110, 103, 32, 109, 111,
          110, 101, 121, 32, 111, 110, 32, 116, 104, 101, 32, 116, 97, 98, 108, 101, 32, 114, 105, 103,
          104, 116, 32, 110, 111, 119, 63 >>,
    dental |->
       << 72, 105, 32, 123, 110, 97, 109, 101, 125, 44, 32, 97, 114, 101, 32, 121, 111, 117, 32, 111,
          112, 101, 110, 32, 116, 111, 32, 97, 32, 113, 117, 105, 99, 107, 32, 105, 100, 101, 97, 63,
          32, 68, 101, 110, 116, 97, 108, 32, 112, 114, 97, 99, 116, 105, 99, 101, 115, 32, 97, 114,
          101, 32, 114, 101, 99, 111, 118, 101, 114, 105, 110, 103, 32, 36, 50, 50, 75, 32, 109, 111,
          110, 116, 104, 108, 121, 32, 98, 121, 32, 97, 110, 115, 119, 101, 114, 105, 110, 103, 32, 101,
          109, 101, 114, 103, 101, 110, 99, 121, 32, 99, 97, 108, 108, 115, 32, 97, 102, 116, 101, 114,
          32, 53, 32, 80, 77, 32, 116, 104, 97, 116, 32, 99, 117, 114, 114, 101, 110, 116, 108, 121,
          32, 103, 111, 32, 116, 111, 32, 118, 111, 105, 99, 101, 109, 97, 105, 108, 46, 32, 72, 111,
          119, 32, 109, 97, 110, 121, 32, 111, 102, 32, 116, 104, 111, 115, 101, 32, 99, 97, 108, 108,
          115, 32, 100, 111, 32, 121, 111, 117, 32, 116, 104, 105, 110, 107, 32, 121, 111, 117, 39, 114,
          101, 32, 109, 105, 115, 115, 105, 110, 103, 63 >>,
    legal |->
       << 72, 105, 32, 123, 110, 97, 109, 101, 125, 44, 32, 113, 117, 105, 99, 107, 32, 116, 104, 111,
          117, 103, 104, 116, 32, 45, 32, 54, 55, 37, 32, 111, 102, 32, 99, 108, 105, 101, 110, 116,
          115, 32, 104, 105, 114, 101, 32, 116, 104, 101, 32, 102, 105, 114, 115, 116, 32, 97, 116, 116,
          111, 114, 110, 101, 121, 32, 119, 104, 111, 32, 97, 110, 115, 119, 101, 114, 115, 46, 32, 89,
          111, 117, 39, 114, 101, 32, 112, 114, 111, 98, 97, 98, 108, 121, 32, 109, 105, 115, 115, 105,
          110, 103, 32, 105, 110, 116, 97, 107, 101, 32, 99, 97, 108, 108, 115, 32, 97, 102, 116, 101,
          114, 32, 53, 32, 80, 77, 46, 32, 87, 111, 117, 108, 100, 32, 108, 111, 111, 107, 105, 110,
          103, 32, 97, 116, 32, 116, 104, 97, 116, 32, 98, 101, 32, 119, 111, 114, 116, 104, 32, 49,
          53, 32, 109, 105, 110, 117, 116, 101, 115, 63 >>,
    realestate |->
       << 72, 105, 32, 123, 110, 97, 109, 101, 125, 44, 32, 119, 104, 101, 110, 32, 121, 111, 117, 39,
          114, 101, 32, 115, 104, 111, 119, 105, 110, 103, 32, 112, 114, 111, 112, 101, 114, 116, 105, 101,
          115, 44, 32, 121, 111, 117, 39, 114, 101, 32, 112, 114, 111, 98, 97, 98, 108, 121, 32, 109,
          105, 115, 115, 105, 110, 103, 32, 98, 117, 121, 101, 114, 32, 99, 97, 108, 108, 115, 46, 32,
          77, 111, 115, 116, 32, 97, 103, 101, 110, 116, 115, 32, 109, 105, 115, 115, 32, 52, 48, 37,
          32, 111, 102, 32, 116, 104, 101, 105, 114, 115, 46, 32, 87, 97, 110, 116, 32, 116, 111, 32,
          115, 101, 101, 32, 119, 104, 97, 116, 32, 116, 104, 111, 115, 101, 32, 109, 105, 115, 115, 101,
          100, 32, 99, 97, 108, 108, 115, 32, 97, 114, 101, 32, 99, 111, 115, 116, 105, 110, 103, 32,
          121, 111, 117, 63 >>,
    consulting |->
       << 72, 105, 32, 123, 110, 97, 109, 101, 125, 44, 32, 121, 111, 117, 114, 32, 105, 100, 101, 97,
          108, 32, 99, 108, 105, 101, 110, 116, 115, 32, 99, 97, 108, 108, 32, 97, 102, 116, 101, 114,
          32, 53, 32, 80, 77, 32, 119, 104, 101, 110, 32, 121, 111, 117, 39, 114, 101, 32, 110, 111,
          116, 32, 97, 118, 97, 105, 108, 97, 98, 108, 101, 46, 32, 52, 55, 37, 32, 111, 102, 32,
          99, 111, 110, 115, 117, 108, 116, 105, 110, 103, 32, 105, 110, 113, 117, 105, 114, 105, 101, 115,
          32, 104, 97, 112, 112, 101, 110, 32, 97, 102, 116, 101, 114, 32, 104, 111, 117, 114, 115, 46,
          32, 65, 114, 101, 32, 121, 111, 117, 32, 105, 110, 116, 101, 114, 101, 115, 116, 101, 100, 32,
          105, 110, 32, 99, 97, 112, 116, 117, 114, 105, 110, 103, 32, 116, 104, 111, 115, 101, 32, 99,
          97, 108, 108, 115, 32, 103, 111, 105, 110, 103, 32, 116, 111, 32, 99, 111, 109, 112, 101, 116,
          105, 116, 111, 114, 115, 63 >>
  ]

\* line 182: the fallback utterance
FallbackText ==
  << 73, 32, 117, 110, 100, 101, 114, 115, 116, 97, 110, 100, 46, 32, 84, 101,
     108, 108, 32, 109, 101, 32, 109, 111, 114, 101, 32, 97, 98, 111, 117, 116,
     32, 121, 111, 117, 114, 32, 115, 105, 116, 117, 97, 116, 105, 111, 110, 46 >>

\* a lookup that misses its key and falls back to "Hello"
OpeningDefault == << 72, 101, 108, 108, 111 >>

\* line 219: ELITE_OPENINGS.get('restaurant', "Hello")
OpeningLine == ELITE_OPENINGS.restaurant

\* ------------------------------------------------------------ environment
Channels == {"ws1", "ws2"}

\* Python's None (a missing callSid, a missing event)
None == "<None>"
CallSids == {"CA123"}
\* line 215: the readings datetime.now() may give
Times == {1, 2}

\* the text fragments (chunk.text) the token source may produce:
\* "", "Hi", " there", "!"
Chunks == { << >>, << 72, 105 >>, << 32, 116, 104, 101, 114, 101 >>, << 33 >> }

\* An inbound frame, described by what json.loads and the lookups of the
\* handler find in it: json (the text parses), object (the value is a dict),
\* event (message.get('event')), start / media ("absent", "scalar", "dict"),
\* callSid (start.get('callSid')), payload (media['payload'], if present).
InFrame(json, object, event, start, callSid, media, hasPayload, payload) ==
  [json |-> json, object |-> object, event |-> event, start |-> start,
   callSid |-> callSid, media |-> media, hasPayload |-> hasPayload,
   payload |-> payload]

\* not JSON at all
TextFrame == InFrame(FALSE, FALSE, None, "absent", None, "absent", FALSE, << >>)
\* JSON, but an array
ArrayFrame == InFrame(TRUE, FALSE, None, "absent", None, "absent", FALSE, << >>)
\* {"event":"start","start":{"callSid":c}}
StartFrame(c) == InFrame(TRUE, TRUE, "start", "dict", c, "absent", FALSE, << >>)
\* {"event":"start"}: no call identifier
StartNoSidFrame == InFrame(TRUE, TRUE, "start", "absent", None, "absent", FALSE, << >>)
\* {"event":"start","start":"x"}
StartScalarFrame == InFrame(TRUE, TRUE, "start", "scalar", None, "absent", FALSE, << >>)
\* {"event":"media","media":{"payload":p}}
MediaFrame(p) == InFrame(TRUE, TRUE, "media", "absent", None, "dict", TRUE, p)
\* {"event":"media","media":{}}
MediaNoPayloadFrame == InFrame(TRUE, TRUE, "media", "absent", None, "dict", FALSE, << >>)
\* {"event":"stop"}
StopFrame == InFrame(TRUE, TRUE, "stop", "absent", None, "absent", FALSE, << >>)

\* "SGk=" (two bytes of audio) and "SGk" (incorrect padding)
GoodPayload == B64Encode(<< 72, 105 >>)
BadPayload == << 18, 6, 36 >>

\* before the first ws.receive() returns, `data` is unbound
NoData == [frame |-> InFrame(FALSE, FALSE, "<unbound>", "absent", None, "absent",
                             FALSE, << >>),
           busy |-> FALSE]

InboundFrames ==
  { TextFrame, ArrayFrame, StartNoSidFrame, StartScalarFrame,
    MediaFrame(GoodPayload), MediaFrame(BadPayload), MediaNoPayloadFrame,
    StopFrame }
  \cup { StartFrame(c) : c \in CallSids }

\* line 228: whether base64.b64decode accepts a payload, worked out once
\* for each payload the peer sends
PayloadDecodes ==
  [p \in { f.payload : f \in InboundFrames } |-> B64Decode(p).ok]

\* ------------------------------------------------------------------ state
VARIABLES
  ACTIVE_CALLS,  \* line 138: call_sid -> [started, transcript]
  pc,            \* per channel: "idle" (no connection), "recv" (in ws.receive),
                 \*   "stream" (inside asyncio.run(handle_stream())), "done"
  closed,        \* per channel: the peer has closed the connection
  inbox,         \* per channel: frames the peer sent, not yet received;
                 \*   busy records whether a generation was running at arrival
  sent,          \* per channel: number of frames the peer has sent
  out,           \* per channel: the outbound frames written, in order
  inflight,      \* per channel: handle_stream coroutines running
  generations,   \* per channel: generation requests started so far
  tokens,        \* per channel: chunks the source has produced so far
  produced,      \* per channel: chunks produced in the latest generation
  genBase,       \* per channel: Len(out) when the latest generation started
  genCount,      \* per channel: frames the latest generation has written
  result,        \* per channel: how the latest generation ended
  exit,          \* per channel: why the handler returned
  lateWrites,    \* per channel: ws.send calls made after the peer closed
  data,          \* per channel: line 202, what ws.receive() returned last
  registered,    \* per channel: the keys its start events have registered
  METRICS,       \* lines 139-144: the four counters
  rpc,           \* per request: where make_call stands: "idle", "create"
                 \*   (in calls.create), "load" and "store" (before the read
                 \*   and before the write of line 332), "done"
  tmp,           \* per request: the counter value line 332 has read
  response       \* per request: what make_call answered

vars == << ACTIVE_CALLS, pc, closed, inbox, sent, out, inflight, generations,
           tokens, produced, genBase, genCount, result, exit, lateWrites, data,
           registered, METRICS, rpc, tmp, response >>

\* the state of the REST side
callVars == << METRICS, rpc, tmp, response >>

\* the requests the server's threads serve
Requests == 1 .. NumRequests

\* lines 138 and 197: an empty registry; one connection established
Init ==
  /\ ACTIVE_CALLS = [k \in {} |-> [started |-> 0, transcript |-> << >>]]
  /\ pc = [ch \in Channels |-> IF ch = "ws1" THEN "recv" ELSE "idle"]
  /\ closed = [ch \in Channels |-> FALSE]
  /\ inbox = [ch \in Channels |-> << >>]
  /\ sent = [ch \in Channels |-> 0]
  /\ out = [ch \in Channels |-> << >>]
  /\ inflight = [ch \in Channels |-> 0]
  /\ generations = [ch \in Channels |-> 0]
  /\ tokens = [ch \in Channels |-> 0]
  /\ produced = [ch \in Channels |-> << >>]
  /\ genBase = [ch \in Channels |-> 0]
  /\ genCount = [ch \in Channels |-> 0]
  /\ result = [ch \in Channels |-> "none"]
  /\ exit = [ch \in Channels |-> "none"]
  /\ lateWrites = [ch \in Channels |-> 0]
  /\ data = [ch \in Channels |-> NoData]
  /\ registered = [ch \in Channels |-> {}]
  /\ METRICS = [calls_made |-> 0, calls_connected |-> 0, conversions |-> 0,
                total_minutes |-> 0]
  /\ rpc = [r \in Requests |-> "idle"]
  /\ tmp = [r \in Requests |-> 0]
  /\ response = [r \in Requests |-> "none"]

\* ------------------------------------------------------- handler helpers
\* lines 221-224 and 240-243: the frame ws.send writes for a text
OutFrame(text) ==
  [event |-> "media", media |-> [payload |-> B64Encode(Utf8Encode(text))]]

\* lines 219-224: the opening frame
OpeningFrame == OutFrame(OpeningLine)

\* an except branch that yields an empty utterance
FallbackFrameEmpty == OutFrame(<< >>)

\* lines 182, 240-243: the fallback frame
FallbackFrame == OutFrame(FallbackText)

\* the receiving side, which is no part of the handler: what a client finds
\* in an outbound frame, the text of its payload
DecodePayload(frame) == Utf8Decode(B64Decode(frame.media.payload).bytes)

\* the same, looked up for the frames the handler is known to write and
\* computed for any other
WrittenFrames ==
  { OpeningFrame, FallbackFrame } \cup { OutFrame(chunk) : chunk \in Chunks }
WrittenText == [frame \in WrittenFrames |-> DecodePayload(frame)]
Decoded(frame) ==
  IF frame \in WrittenFrames THEN WrittenText[frame] ELSE DecodePayload(frame)


\* line 213: message.get('start', {}).get('callSid')
CallSidOf(f) == IF f.start = "dict" THEN f.callSid ELSE None

\* a dispatch whose last branch is `else` and not `elif`: every event that
\* is not media is taken for a start
EffectElseStart(f) ==
  IF ~f.json THEN "skip"
  ELSE IF ~f.object THEN "raise"
  ELSE IF f.event = "media" THEN
    IF f.media # "dict" \/ ~f.hasPayload \/ ~PayloadDecodes[f.payload]
      THEN "raise" ELSE "media"
  ELSE IF f.start = "scalar" THEN "raise" ELSE "start"

\* lines 207-249: what processing a received frame comes to.
\*   "skip"   json.loads raises JSONDecodeError: continue (248-249)
\*   "raise"  another exception leaves the loop through line 251:
\*            AttributeError (message or message['start'] is no dict),
\*            KeyError/TypeError (no media, no payload), binascii.Error
\*   "start", "media"  the two branches;  "ignore"  any other event
Effect(f) ==
  IF ~f.json THEN "skip"
  ELSE IF ~f.object THEN "raise"
  ELSE IF f.event = "start" THEN
    IF f.start = "scalar" THEN "raise" ELSE "start"
  ELSE IF f.event = "media" THEN
    IF f.media # "dict" \/ ~f.hasPayload \/ ~PayloadDecodes[f.payload]
      THEN "raise" ELSE "media"
  ELSE "ignore"

\* a source that yields every chunk, empty or not
YieldsAlways(chunk) == TRUE

\* line 174: `if chunk.text:` an empty fragment is not yielded
Yields(chunk) == chunk # << >>

\* one thread for all connections: no handler receives while the generation
\* of another connection is running
CanReceiveShared(ch) ==
  pc[ch] = "recv" /\ \A o \in Channels \ {ch} : pc[o] # "stream"

\* a handler that goes on receiving while handle_stream runs as a task
CanReceiveAnytime(ch) == pc[ch] \in {"recv", "stream"}

\* lines 200-202: the handler reads the next frame only from the top of its
\* loop; asyncio.run (246) returns when the generation has ended
CanReceive(ch) == pc[ch] = "recv"

\* line 214: ACTIVE_CALLS[call_sid] = {'started': ..., 'transcript': []}
Registered(calls, sid, t) ==
  [k \in (DOMAIN calls) \cup {sid} |->
     IF k = sid THEN [started |-> t, transcript |-> << >>] ELSE calls[k]]

\* ----------------------------------------------------------------- peer
\* Twilio sends a frame; it waits in the connection's buffer until the
\* handler next calls ws.receive()
PeerSend(ch, f) ==
  /\ pc[ch] \in {"recv", "stream"}
  /\ ~closed[ch]
  /\ sent[ch] < MaxInbound
  /\ inbox' = [inbox EXCEPT ![ch] =
                 Append(@, [frame |-> f, busy |-> (pc[ch] = "stream")])]
  /\ sent' = [sent EXCEPT ![ch] = @ + 1]
  /\ UNCHANGED << ACTIVE_CALLS, pc, closed, out, inflight, generations, tokens,
                  produced, genBase, genCount, result, exit, lateWrites,
                  data, registered >>
  /\ UNCHANGED callVars

\* Twilio closes the connection (the call ended)
PeerClose(ch) ==
  /\ pc[ch] \in {"recv", "stream"}
  /\ ~closed[ch]
  /\ closed' = [closed EXCEPT ![ch] = TRUE]
  /\ UNCHANGED << ACTIVE_CALLS, pc, inbox, sent, out, inflight, generations,
                  tokens, produced, genBase, genCount, result, exit, lateWrites,
                  data, registered >>
  /\ UNCHANGED callVars

\* -------------------------------------------------------------- handler
\* lines 202-205 and 251-254: ws.receive() on a closed connection ends the
\* loop (None, or ConnectionClosed caught at 251); the handler returns and
\* the connection, with whatever it still buffers, is discarded
RecvClosed(ch) ==
  /\ CanReceive(ch)
  /\ closed[ch]
  /\ pc' = [pc EXCEPT ![ch] = "done"]
  /\ exit' = [exit EXCEPT ![ch] = "closed"]
  /\ inbox' = [inbox EXCEPT ![ch] = << >>]
  /\ UNCHANGED << ACTIVE_CALLS, closed, sent, out, inflight, generations,
                  tokens, produced, genBase, genCount, result, lateWrites,
                  data, registered >>
  /\ UNCHANGED callVars

\* the frame ws.receive() returns next
Ready(ch) == CanReceive(ch) /\ ~closed[ch] /\ inbox[ch] # << >>

\* a buffer read from the wrong end: the newest frame first
Next1Newest(ch) == inbox[ch][Len(inbox[ch])].frame

Next1(ch) == Head(inbox[ch]).frame

\* lines 208, 248-249: not JSON: continue
RecvSkip(ch) ==
  /\ Ready(ch)
  /\ Effect(Next1(ch)) = "skip"
  /\ inbox' = [inbox EXCEPT ![ch] = Tail(@)]
  /\ data' = [data EXCEPT ![ch] = Head(inbox[ch])]
  /\ UNCHANGED << ACTIVE_CALLS, pc, closed, sent, out, inflight, generations,
                  tokens, produced, genBase, genCount, result, exit, lateWrites,
                  registered >>
  /\ UNCHANGED callVars

\* lines 209, 213, 228 then 251-254: an exception that is no JSONDecodeError
\* leaves the loop; the handler returns and the connection, with whatever
\* it still buffers, is discarded
RecvRaise(ch) ==
  /\ Ready(ch)
  /\ Effect(Next1(ch)) = "raise"
  /\ inbox' = [inbox EXCEPT ![ch] = << >>]
  /\ pc' = [pc EXCEPT ![ch] = "done"]
  /\ exit' = [exit EXCEPT ![ch] = "error"]
  /\ data' = [data EXCEPT ![ch] = Head(inbox[ch])]
  /\ UNCHANGED << ACTIVE_CALLS, closed, sent, out, inflight, generations,
                  tokens, produced, genBase, genCount, result, lateWrites,
                  registered >>
  /\ UNCHANGED callVars

\* lines 211-224: register the call, send the opening
RecvStart(ch) ==
  /\ Ready(ch)
  /\ Effect(Next1(ch)) = "start"
  /\ inbox' = [inbox EXCEPT ![ch] = Tail(@)]
  /\ \E t \in Times :
       ACTIVE_CALLS' = Registered(ACTIVE_CALLS, CallSidOf(Next1(ch)), t)
  /\ out' = [out EXCEPT ![ch] = Append(@, OpeningFrame)]
  /\ data' = [data EXCEPT ![ch] = Head(inbox[ch])]
  /\ registered' = [registered EXCEPT ![ch] = @ \cup {CallSidOf(Next1(ch))}]
  /\ UNCHANGED << pc, closed, sent, inflight, generations, tokens, produced,
                  genBase, genCount, result, exit, lateWrites >>
  /\ UNCHANGED callVars

\* lines 226-246: decode the payload, enter asyncio.run(handle_stream())
RecvMedia(ch) ==
  /\ Ready(ch)
  /\ Effect(Next1(ch)) = "media"
  /\ inbox' = [inbox EXCEPT ![ch] = Tail(@)]
  /\ pc' = [pc EXCEPT ![ch] = "stream"]
  /\ inflight' = [inflight EXCEPT ![ch] = @ + 1]
  /\ generations' = [generations EXCEPT ![ch] = @ + 1]
  /\ produced' = [produced EXCEPT ![ch] = << >>]
  /\ genBase' = [genBase EXCEPT ![ch] = Len(out[ch])]
  /\ genCount' = [genCount EXCEPT ![ch] = 0]
  /\ result' = [result EXCEPT ![ch] = "running"]
  /\ data' = [data EXCEPT ![ch] = Head(inbox[ch])]
  /\ UNCHANGED << ACTIVE_CALLS, closed, sent, out, tokens, exit, lateWrites,
                  registered >>
  /\ UNCHANGED callVars

\* lines 209-226: an event that is neither start nor media
RecvOther(ch) ==
  /\ Ready(ch)
  /\ Effect(Next1(ch)) = "ignore"
  /\ inbox' = [inbox EXCEPT ![ch] = Tail(@)]
  /\ data' = [data EXCEPT ![ch] = Head(inbox[ch])]
  /\ UNCHANGED << ACTIVE_CALLS, pc, closed, sent, out, inflight, generations,
                  tokens, produced, genBase, genCount, result, exit, lateWrites,
                  registered >>
  /\ UNCHANGED callVars

\* ----------------------------------------------------------- generation
\* lines 240-243 on a closed connection: ws.send raises ConnectionClosed,
\* which leaves handle_stream, asyncio.run and the loop (251-254)
SendFails(ch) ==
  /\ pc' = [pc EXCEPT ![ch] = "done"]
  /\ exit' = [exit EXCEPT ![ch] = "error"]
  /\ inflight' = [inflight EXCEPT ![ch] = @ - 1]
  /\ result' = [result EXCEPT ![ch] = "aborted"]
  /\ lateWrites' = [lateWrites EXCEPT ![ch] = @ + 1]
  /\ inbox' = [inbox EXCEPT ![ch] = << >>]
  /\ UNCHANGED << out, genCount >>

\* lines 240-243 on an open connection: the frame is written
SendWrites(ch, frame) ==
  /\ out' = [out EXCEPT ![ch] = Append(@, frame)]
  /\ genCount' = [genCount EXCEPT ![ch] = @ + 1]
  /\ UNCHANGED << inbox, lateWrites >>

\* lines 173-177, 238-243: the source produces a chunk; a non-empty one is
\* yielded and sent at once
SourceChunk(ch, chunk) ==
  /\ pc[ch] = "stream"
  /\ tokens[ch] < MaxTokens
  /\ tokens' = [tokens EXCEPT ![ch] = @ + 1]
  /\ produced' = [produced EXCEPT ![ch] = Append(@, chunk)]
  /\ IF ~Yields(chunk)
       THEN UNCHANGED << pc, exit, inflight, result, lateWrites, out, genCount,
                         inbox >>
       ELSE IF closed[ch]
         THEN SendFails(ch)
         ELSE /\ SendWrites(ch, OutFrame(chunk))
              /\ UNCHANGED << pc, exit, inflight, result >>
  /\ UNCHANGED << ACTIVE_CALLS, closed, sent, generations, genBase,
                  data, registered >>
  /\ UNCHANGED callVars

\* lines 173, 179, 246: the source is exhausted; asyncio.run returns
SourceEnd(ch) ==
  /\ pc[ch] = "stream"
  /\ pc' = [pc EXCEPT ![ch] = "recv"]
  /\ inflight' = [inflight EXCEPT ![ch] = @ - 1]
  /\ result' = [result EXCEPT ![ch] = "complete"]
  /\ UNCHANGED << ACTIVE_CALLS, closed, inbox, sent, out, generations, tokens,
                  produced, genBase, genCount, exit, lateWrites,
                  data, registered >>
  /\ UNCHANGED callVars

\* lines 180-182, 238-246: the source raises (at the request or at any
\* chunk); the fallback is yielded and sent, then asyncio.run returns
SourceFail(ch) ==
  /\ pc[ch] = "stream"
  /\ IF closed[ch]
       THEN SendFails(ch)
       ELSE /\ SendWrites(ch, FallbackFrame)
            /\ pc' = [pc EXCEPT ![ch] = "recv"]
            /\ inflight' = [inflight EXCEPT ![ch] = @ - 1]
            /\ result' = [result EXCEPT ![ch] = "failed"]
            /\ UNCHANGED exit
  /\ UNCHANGED << ACTIVE_CALLS, closed, sent, generations, tokens, produced,
                  genBase, data, registered >>
  /\ UNCHANGED callVars

\* ------------------------------------------------------------ make_call
\* everything the WebSocket side owns
streamVars == << pc, closed, inbox, sent, out, inflight, generations, tokens,
                 produced, genBase, genCount, result, exit, lateWrites, data,
                 registered >>

\* lines 317-321 with a body that is a JSON object: the thread enters the
\* try block and calls twilio_client.calls.create
Trigger(r) ==
  /\ rpc[r] = "idle"
  /\ rpc' = [rpc EXCEPT ![r] = "create"]
  /\ UNCHANGED << ACTIVE_CALLS, streamVars, METRICS, tmp, response >>

\* lines 318-319 with a body that is no JSON object: data.get raises
\* AttributeError outside the try block; Flask answers 500
TriggerBadBody(r) ==
  /\ rpc[r] = "idle"
  /\ rpc' = [rpc EXCEPT ![r] = "done"]
  /\ response' = [response EXCEPT ![r] = "http500"]
  /\ UNCHANGED << ACTIVE_CALLS, streamVars, METRICS, tmp >>

\* lines 325-330: calls.create returns a call
GatewayOk(r) ==
  /\ rpc[r] = "create"
  /\ rpc' = [rpc EXCEPT ![r] = "load"]
  /\ UNCHANGED << ACTIVE_CALLS, streamVars, METRICS, tmp, response >>

\* lines 325-330 and 339-340: calls.create raises; the except branch
\* answers {'success': False, 'error': ...}
GatewayFails(r) ==
  /\ rpc[r] = "create"
  /\ rpc' = [rpc EXCEPT ![r] = "done"]
  /\ response' = [response EXCEPT ![r] = "failure"]
  /\ UNCHANGED << ACTIVE_CALLS, streamVars, METRICS, tmp >>

\* line 332, first half: METRICS['calls_made'] is read
LoadMetric(r) ==
  /\ rpc[r] = "load"
  /\ tmp' = [tmp EXCEPT ![r] = METRICS.calls_made]
  /\ rpc' = [rpc EXCEPT ![r] = "store"]
  /\ UNCHANGED << ACTIVE_CALLS, streamVars, METRICS, response >>

\* lines 332-338: the write of the counter, then the success answer
StoreMetric(r) ==
  /\ rpc[r] = "store"
  /\ METRICS' = [METRICS EXCEPT !.calls_made = tmp[r] + 1]
  /\ rpc' = [rpc EXCEPT ![r] = "done"]
  /\ response' = [response EXCEPT ![r] = "success"]
  /\ UNCHANGED << ACTIVE_CALLS, streamVars, tmp >>

\* the frames the latest generation of a channel has written
genFrames(ch) == SubSeq(out[ch], genBase[ch] + 1, genBase[ch] + genCount[ch])

\* -------------------------------------------------------- specification
Next ==
  \/ \E ch \in Channels : \E f \in InboundFrames : PeerSend(ch, f)
  \/ \E ch \in Channels : PeerClose(ch)
  \/ \E ch \in Channels : RecvClosed(ch)
  \/ \E ch \in Channels : RecvSkip(ch)
  \/ \E ch \in Channels : RecvRaise(ch)
  \/ \E ch \in Channels : RecvStart(ch)
  \/ \E ch \in Channels : RecvMedia(ch)
  \/ \E ch \in Channels : RecvOther(ch)
  \/ \E ch \in Channels : \E chunk \in Chunks : SourceChunk(ch, chunk)
  \/ \E ch \in Channels : SourceEnd(ch)
  \/ \E ch \in Channels : SourceFail(ch)

Spec == Init /\ [][Next]_vars

\* The steps of the handler's own thread. The thread is scheduled as long as
\* it can run; the source is a remote service awaited without a timeout and
\* the peer is free to stay silent, so neither is bound to take a step.
HandlerStep ==
  \E ch \in Channels :
    \/ RecvClosed(ch) \/ RecvSkip(ch) \/ RecvRaise(ch)
    \/ RecvStart(ch) \/ RecvMedia(ch) \/ RecvOther(ch)

SpecLive == Init /\ [][Next]_vars /\ WF_vars(HandlerStep)

\* The REST side next to a call whose start events register a session:
\* the server's threads serve the requests in any interleaving.
NextCalls ==
  \/ \E r \in Requests : Trigger(r)
  \/ \E r \in Requests : TriggerBadBody(r)
  \/ \E r \in Requests : GatewayOk(r)
  \/ \E r \in Requests : GatewayFails(r)
  \/ \E r \in Requests : LoadMetric(r)
  \/ \E r \in Requests : StoreMetric(r)
  \/ \E ch \in Channels : \E c \in CallSids : PeerSend(ch, StartFrame(c))
  \/ \E ch \in Channels : RecvStart(ch)

SpecCalls == Init /\ [][NextCalls]_vars

\* Two calls at once: the server runs media_stream once per connection,
\* each run on a thread of its own.
InitTwo ==
  /\ ACTIVE_CALLS = [k \in {} |-> [started |-> 0, transcript |-> << >>]]
  /\ pc = [ch \in Channels |-> "recv"]
  /\ closed = [ch \in Channels |-> FALSE]
  /\ inbox = [ch \in Channels |-> << >>]
  /\ sent = [ch \in Channels |-> 0]
  /\ out = [ch \in Channels |-> << >>]
  /\ inflight = [ch \in Channels |-> 0]
  /\ generations = [ch \in Channels |-> 0]
  /\ tokens = [ch \in Channels |-> 0]
  /\ produced = [ch \in Channels |-> << >>]
  /\ genBase = [ch \in Channels |-> 0]
  /\ genCount = [ch \in Channels |-> 0]
  /\ result = [ch \in Channels |-> "none"]
  /\ exit = [ch \in Channels |-> "none"]
  /\ lateWrites = [ch \in Channels |-> 0]
  /\ data = [ch \in Channels |-> NoData]
  /\ registered = [ch \in Channels |-> {}]
  /\ METRICS = [calls_made |-> 0, calls_connected |-> 0, conversions |-> 0,
                total_minutes |-> 0]
  /\ rpc = [r \in Requests |-> "idle"]
  /\ tmp = [r \in Requests |-> 0]
  /\ response = [r \in Requests |-> "none"]

\* the call identifier Twilio gives to the call of each connection
CallSidOfChannel == [ch \in Channels |-> IF ch = "ws1" THEN "CA123" ELSE "CA456"]

\* the frames the peer of a connection sends: one of each kind
FramesTwo(ch) ==
  { StartFrame(CallSidOfChannel[ch]), MediaFrame(GoodPayload), StopFrame,
    TextFrame, ArrayFrame }

\* the chunks the source produces
ChunksTwo == { << >>, <<72, 105>> }

\* frames sent and chunks produced so far, over both channels
SentTwo == sent["ws1"] + sent["ws2"]
TokensTwo == tokens["ws1"] + tokens["ws2"]

NextTwo ==
  \/ \E ch \in Channels : \E f \in FramesTwo(ch) :
       SentTwo < MaxInboundTwo /\ PeerSend(ch, f)
  \/ \E ch \in Channels : PeerClose(ch)
  \/ \E ch \in Channels : RecvClosed(ch)
  \/ \E ch \in Channels : RecvSkip(ch)
  \/ \E ch \in Channels : RecvRaise(ch)
  \/ \E ch \in Channels : RecvStart(ch)
  \/ \E ch \in Channels : RecvMedia(ch)
  \/ \E ch \in Channels : RecvOther(ch)
  \/ \E ch \in Channels : \E chunk \in ChunksTwo :
       TokensTwo < MaxTokensTwo /\ SourceChunk(ch, chunk)
  \/ \E ch \in Channels : SourceEnd(ch)
  \/ \E ch \in Channels : SourceFail(ch)

SpecTwo == InitTwo /\ [][NextTwo]_vars

\* ================================================================ claims
\* the texts of a sequence of outbound frames
DecodedSeq(frames) == [i \in 1..Len(frames) |-> Decoded(frames[i])]
NonEmpty(chunk) == Len(chunk) > 0

\* this step is the handler of ch taking a frame from its buffer
Processes(ch) == Ready(ch) /\ sent'[ch] = sent[ch] /\ inbox'[ch] # inbox[ch]

\* the malformed frames: not JSON, JSON but no object, a media event without
\* a payload, a payload that is no valid base64; and another event kind
MalformedFrames ==
  { TextFrame, ArrayFrame, MediaNoPayloadFrame, MediaFrame(BadPayload) }
OtherFrames == { StopFrame }

HiThere == << << 72, 105 >>, << 32, 116, 104, 101, 114, 101 >>, << 33 >> >>

\* C1: on every channel at most one token generation is in flight, in every
\* reachable state, whatever media events arrive and whenever they arrive.
AtMostOneGeneration == \A ch \in Channels : inflight[ch] <= 1

\* C1 witness: a generation is running and has written a frame while a
\* media event that arrived during it waits in the buffer.
MediaWaitsBehindGeneration ==
  \E ch \in Channels :
    /\ inflight[ch] = 1
    /\ genCount[ch] >= 1
    /\ \E i \in 1..Len(inbox[ch]) :
         inbox[ch][i].busy /\ inbox[ch][i].frame = MediaFrame(GoodPayload)

\* C2 as stated: when a generation completes normally, the texts of the
\* frames it wrote are exactly the chunks the source produced, in order.
EveryTokenForwarded ==
  \A ch \in Channels :
    result[ch] = "complete" => DecodedSeq(genFrames(ch)) = produced[ch]

\* C2 amended: when a generation completes normally, the texts of the frames
\* it wrote are exactly the non-empty chunks the source produced, in order.
NonEmptyTokensForwarded ==
  \A ch \in Channels :
    result[ch] = "complete" =>
      DecodedSeq(genFrames(ch)) = SelectSeq(produced[ch], NonEmpty)

\* C2 witness: the source produced "Hi", " there", "!" and the generation
\* wrote three frames with these texts.
HiThereForwarded ==
  \E ch \in Channels :
    /\ result[ch] = "complete"
    /\ produced[ch] = HiThere
    /\ genCount[ch] = 3
    /\ DecodedSeq(genFrames(ch)) = HiThere

\* C3: once the peer has closed a channel no write is attempted on it.
NoWriteAfterClose == \A ch \in Channels : lateWrites[ch] = 0

\* C4: when the handler of a channel has returned, the call identifiers its
\* well-formed start events registered are no keys of the registry.
SessionRemovedAtClose ==
  \A ch \in Channels :
    pc[ch] = "done" =>
      (registered[ch] \cap CallSids) \cap DOMAIN ACTIVE_CALLS = {}

\* C5: a generation whose source failed on an open channel wrote the
\* non-empty chunks produced so far and then exactly one fallback frame; it
\* is no longer in flight; the failure does not end the handler; and the
\* next media event the handler takes starts a new generation.
FallbackCount(frames) ==
  Cardinality({ i \in 1..Len(frames) : Decoded(frames[i]) = FallbackText })

FailedGeneration(ch) ==
  result[ch] = "failed" =>
    LET frames == genFrames(ch)
    IN  /\ inflight[ch] = 0
        /\ pc[ch] # "stream"
        /\ FallbackCount(frames) = 1
        /\ Decoded(frames[Len(frames)]) = FallbackText
        /\ DecodedSeq(SubSeq(frames, 1, Len(frames) - 1))
             = SelectSeq(produced[ch], NonEmpty)

FailureStep(ch) ==
  /\ (result[ch] = "running" /\ result'[ch] = "failed") =>
       /\ pc'[ch] = "recv"
       /\ exit'[ch] = "none"
       /\ closed'[ch] = closed[ch]
  /\ (result[ch] = "failed" /\ Processes(ch)
        /\ Next1(ch) = MediaFrame(GoodPayload)) =>
       /\ pc'[ch] = "stream"
       /\ inflight'[ch] = 1
       /\ generations'[ch] = generations[ch] + 1

SourceFailureRecovered ==
  [][\A ch \in Channels : FailedGeneration(ch)' /\ FailureStep(ch)]_vars

\* C5 witness: a second generation runs on an open channel whose previous
\* generation ended with the fallback frame.
GenerationAfterFallback ==
  \E ch \in Channels :
    /\ pc[ch] = "stream"
    /\ ~closed[ch]
    /\ generations[ch] = 2
    /\ genBase[ch] >= 2
    /\ Decoded(out[ch][genBase[ch]]) = FallbackText

\* C6: the handler taking a malformed frame, or a frame of another event
\* kind than start and media, leaves the registry as it is, writes no
\* outbound frame and starts no generation.
MalformedStep(ch) ==
  (Processes(ch) /\ Next1(ch) \in MalformedFrames \cup OtherFrames) =>
    /\ ACTIVE_CALLS' = ACTIVE_CALLS
    /\ out' = out
    /\ registered' = registered
    /\ generations' = generations
    /\ inflight' = inflight

MalformedFrameNonFatal ==
  \A ch \in Channels :
    exit[ch] = "error" => data[ch].frame \notin MalformedFrames

\* C8: the handler taking a well-formed start event with call identifier c
\* writes exactly one frame, whose text is the configured opening line, and
\* leaves a session with an empty transcript under c in the registry.
StartStep(ch) ==
  (Processes(ch) /\ Next1(ch) \in { StartFrame(c) : c \in CallSids }) =>
    /\ Len(out'[ch]) = Len(out[ch]) + 1
    /\ SubSeq(out'[ch], 1, Len(out[ch])) = out[ch]
    /\ Decoded(out'[ch][Len(out'[ch])]) = ELITE_OPENINGS.restaurant
    /\ Next1(ch).callSid \in DOMAIN ACTIVE_CALLS'
    /\ ACTIVE_CALLS'[Next1(ch).callSid].transcript = << >>

StartOpensSession == [][\A ch \in Channels : StartStep(ch)]_vars

\* C8 witness: after the start event of CA123 the channel holds one frame,
\* the opening line, and the registry holds CA123.
OpeningSent ==
  \E ch \in Channels :
    /\ data[ch].frame = StartFrame("CA123")
    /\ Len(out[ch]) = 1
    /\ Decoded(out[ch][1]) = ELITE_OPENINGS.restaurant
    /\ "CA123" \in DOMAIN ACTIVE_CALLS
    /\ ACTIVE_CALLS["CA123"].transcript = << >>

\* C9: after a start event that is malformed or carries no call identifier
\* the registry has no entry under the null key and the handler has
\* returned, so that no later frame of the channel is processed.
StartWithoutCallIdRejected ==
  \A ch \in Channels :
    data[ch].frame \in { StartNoSidFrame, StartScalarFrame } =>
      /\ None \notin DOMAIN ACTIVE_CALLS
      /\ pc[ch] = "done"

\* C10 as stated: a media event that arrived while a generation was in
\* flight never starts a generation, not even when the handler takes it
\* after that generation has ended.
BusyMediaStep(ch) ==
  (Processes(ch) /\ Head(inbox[ch]).busy
     /\ Next1(ch) = MediaFrame(GoodPayload)) =>
    generations'[ch] = generations[ch]

QueuedStep(ch) ==
  /\ (pc[ch] = "stream" /\ sent'[ch] # sent[ch]) =>
       /\ pc'[ch] = "stream"
       /\ out'[ch] = out[ch]
       /\ produced'[ch] = produced[ch]
       /\ genCount'[ch] = genCount[ch]
       /\ inbox'[ch] = Append(inbox[ch], inbox'[ch][Len(inbox'[ch])])
  /\ pc[ch] = "stream" =>
       /\ generations'[ch] = generations[ch]
       /\ data'[ch] = data[ch]
       /\ \/ inbox'[ch] = inbox[ch]
          \/ sent'[ch] # sent[ch]
          \/ pc'[ch] = "done"
  /\ (Processes(ch) /\ Head(inbox[ch]).busy
        /\ Next1(ch) = MediaFrame(GoodPayload)) =>
       /\ pc'[ch] = "stream"
       /\ generations'[ch] = generations[ch] + 1

OpeningComesFirst ==
  \A ch \in Channels :
    /\ out[ch] # << >> => Decoded(out[ch][1]) = ELITE_OPENINGS.restaurant
    /\ registered[ch] = {} => generations[ch] = 0

\* C12: the handler takes the frames of a channel oldest first and one at a
\* time: the frame it takes is the head of the buffer, what the step does is
\* what that frame asks for, and while the generation a media event started
\* is running no other frame is taken and the registry is not written.
TakenInOrder(ch) ==
  Processes(ch) =>
    /\ data'[ch] = Head(inbox[ch])
    /\ inbox'[ch] = Tail(inbox[ch]) \/ pc'[ch] = "done"
    /\ IF Effect(Head(inbox[ch]).frame) = "start"
         THEN out'[ch] = Append(out[ch], OpeningFrame) /\ pc'[ch] = "recv"
         ELSE out'[ch] = out[ch]
    /\ pc'[ch] = "stream" <=> Effect(Head(inbox[ch]).frame) = "media"
    /\ pc'[ch] = "done" <=> Effect(Head(inbox[ch]).frame) = "raise"

NothingOvertakes(ch) ==
  pc[ch] = "stream" =>
    /\ data'[ch] = data[ch]
    /\ ACTIVE_CALLS' = ACTIVE_CALLS
    /\ \/ inbox'[ch] = inbox[ch]
       \/ sent'[ch] = sent[ch] + 1 /\ SubSeq(inbox'[ch], 1, Len(inbox[ch])) = inbox[ch]
       \/ pc'[ch] = "done"
    /\ Len(out'[ch]) > Len(out[ch]) =>
         /\ out'[ch] = Append(out[ch], out'[ch][Len(out'[ch])])
         /\ genCount'[ch] = genCount[ch] + 1

ArrivalOrder ==
  [][\A ch \in Channels : TakenInOrder(ch) /\ NothingOvertakes(ch)]_vars

\* C12 witness: a start event and a media event arrived in this order; the
\* opening was written first, the generation of the media event wrote its
\* frame after it.
StartThenMediaAnswered ==
  \E ch \in Channels :
    /\ sent[ch] = 2
    /\ data[ch].frame = MediaFrame(GoodPayload)
    /\ Len(out[ch]) = 2
    /\ out[ch][1] = OpeningFrame
    /\ genBase[ch] = 1 /\ genCount[ch] = 1

\* C16: the transcript of a session only grows, and it grows with every
\* event: a step that processes an inbound frame or writes an outbound frame
\* on the channel of a registered session leaves that session's transcript
\* longer, and no step shortens or replaces the transcript of a session.
SessionEvent(ch) ==
  \/ Processes(ch) /\ Effect(Head(inbox[ch]).frame) \in {"start", "media"}
  \/ Len(out'[ch]) > Len(out[ch])

TranscriptRecordsEveryEvent ==
  [][\A ch \in Channels : \A k \in registered[ch] \cap CallSids :
       LET before == ACTIVE_CALLS[k].transcript
           after == ACTIVE_CALLS'[k].transcript
       IN /\ Len(after) >= Len(before)
          /\ SubSeq(after, 1, Len(before)) = before
          /\ SessionEvent(ch) => Len(after) > Len(before)]_vars

\* C17: started_at is written once: no step changes the started_at of a
\* session that is already in the registry.
StartedAtSetOnce ==
  [][\A k \in DOMAIN ACTIVE_CALLS :
       /\ k \in DOMAIN ACTIVE_CALLS'
       /\ ACTIVE_CALLS'[k].started = ACTIVE_CALLS[k].started]_vars

\* C20: a generation that has ended, by normal completion or by a failure
\* of the source, has written at least one frame.
EveryMediaAnswered ==
  \A ch \in Channels :
    result[ch] \in {"complete", "failed"} => genCount[ch] >= 1

\* C18: a generation that is in flight when the peer closes the channel is
\* cancelled: the handler of the channel terminates, whatever the source
\* does afterwards.
ClosedGenerationCancelled ==
  \A ch \in Channels : (closed[ch] /\ pc[ch] = "stream") ~> (pc[ch] = "done")

\* C13: a call-trigger request whose gateway call fails answers with the
\* failure result and leaves the registry and the counters as they were; a
\* request whose gateway call succeeds leaves the calls-initiated counter
\* one higher than it found it, and nothing else changes that counter.
Answers(r, kind) == response[r] = "none" /\ response'[r] = kind

CallTriggerOutcome ==
  [][\A r \in Requests :
       /\ rpc[r] = "create" /\ rpc'[r] = "done" => Answers(r, "failure")
       /\ Answers(r, "failure") =>
            ACTIVE_CALLS' = ACTIVE_CALLS /\ METRICS' = METRICS
       /\ Answers(r, "success") =>
            METRICS'.calls_made = METRICS.calls_made + 1
       /\ METRICS' # METRICS => \E q \in Requests : Answers(q, "success")]_vars

\* C14: no step lowers any of the four counters.
CountersNeverDecrease ==
  [][/\ METRICS'.calls_made >= METRICS.calls_made
     /\ METRICS'.calls_connected >= METRICS.calls_connected
     /\ METRICS'.conversions >= METRICS.conversions
     /\ METRICS'.total_minutes >= METRICS.total_minutes]_vars

\* C15: once no request is under way, the calls-initiated counter is the
\* number of requests whose gateway call succeeded.
NoLostUpdate ==
  (\A r \in Requests : rpc[r] \in {"idle", "done"}) =>
    METRICS.calls_made =
      Cardinality({ r \in Requests : response[r] = "success" })

\* C19: two calls do not get in each other's way. Whatever the other call
\* is doing (its generation may be stalled, its handler may have ended on an
\* error), a call whose handler waits with a frame in its buffer can take
\* it, and a call whose generation is running can be answered; and a step
\* of a call whose generation is running or whose handler ends on an error
\* changes neither the registry nor anything of the other call.
CanProceed(b) ==
  /\ pc[b] = "recv" /\ ~closed[b] /\ inbox[b] # << >> =>
       ENABLED (RecvMedia(b) \/ RecvStart(b) \/ RecvSkip(b)
                  \/ RecvRaise(b) \/ RecvOther(b))
  /\ pc[b] = "recv" /\ closed[b] => ENABLED RecvClosed(b)
  /\ pc[b] = "stream" => ENABLED SourceFail(b)

ChannelState(b) ==
  << pc[b], closed[b], inbox[b], sent[b], out[b], inflight[b], generations[b],
     tokens[b], produced[b], genBase[b], genCount[b], result[b], exit[b],
     lateWrites[b], data[b], registered[b] >>

StalledOrFailing(a) ==
  \/ pc[a] = "stream" /\ ChannelState(a)' # ChannelState(a)
  \/ pc[a] # "done" /\ pc'[a] = "done" /\ exit'[a] = "error"

CallsIsolated ==
  [][\A a \in Channels : \A b \in Channels \ {a} :
       /\ CanProceed(b)'
       /\ StalledOrFailing(a) =>
            /\ ChannelState(b)' = ChannelState(b)
            /\ ACTIVE_CALLS' = ACTIVE_CALLS]_vars

\* C19 witness: the generation of one call has started and has produced
\* nothing, while the media event of the other call has been answered.
AnsweredBesideStalledCall ==
  \E a \in Channels : \E b \in Channels \ {a} :
    /\ pc[a] = "stream" /\ tokens[a] = 0 /\ genCount[a] = 0
    /\ data[b].frame = MediaFrame(GoodPayload)
    /\ result[b] = "complete" /\ genCount[b] >= 1
    /\ Decoded(out[b][1]) = <<72, 105>>

====
